---- MODULE Spec2Model ----
(***************************************************************************)
(* Model of the multi-tenant database registry of mikro-multi-tenant:      *)
(* TenantManager (getBaseORM, getTenantORM), the tenant middleware that    *)
(* resolves a tenant id from a request, and the organization routes that   *)
(* use the base handle.  Every `await` of the source is a point where      *)
(* another request may run, so each awaited operation is one action: the   *)
(* action fires when the awaited operation completes and runs the code up  *)
(* to the next await.                                                      *)
(***************************************************************************)
EXTENDS Integers, Sequences, FiniteSets, Bags, TLC

\* ------------------------------------------------------------------ bounds
MaxRequests == 3
MaxSeqRequests == 2
MaxHeaderLen == 1
MaxHostLen == 2
MaxLifeRequests == 2
MaxNameLen == 3
MaxRouteRequests == 1

Procs == {"r1", "r2"}

\* ------------------------------------------------------- strings as values
\* A JavaScript string is a sequence of characters; `undefined` is a value
\* that is not a string.
Str(s) == [defined |-> TRUE, value |-> s]
Undefined == [defined |-> FALSE, value |-> <<>>]

\* JavaScript truthiness of a string-or-undefined value: undefined and the
\* empty string are falsy.
Truthy(v) == v.defined /\ v.value # <<>>

SeqsUpTo(S, n) == UNION {[1..k -> S] : k \in 0..n}

HeaderChars == {"b"}
HostChars == {"a", "."}
Localhost == <<"l", "o", "c", "a", "l", "h", "o", "s", "t">>

\* Values of req.headers['x-tenant-id'] and of req.hostname.
Headers == {Undefined} \cup {Str(s) : s \in SeqsUpTo(HeaderChars, MaxHeaderLen)}
Hostnames == {Undefined, Str(Localhost)} \cup {Str(s) : s \in SeqsUpTo(HostChars, MaxHostLen)}

\* hostname.split('.')[0]: the characters before the first dot (the whole
\* string when it has no dot).
RECURSIVE FirstLabel(_)
FirstLabel(s) ==
  IF s = <<>> THEN <<>>
  ELSE IF Head(s) = "." THEN <<>>
  ELSE <<Head(s)>> \o FirstLabel(Tail(s))

\* ------------------------------------------------------ organization names
\* Characters of an organization name: an upper-case and a lower-case letter,
\* a digit, a space, a hyphen and an apostrophe.
NameChars == {"G", "g", "1", " ", "-", "'"}

\* req.body.name of a POST /organizations that passed the test of line 46:
\* a non-empty string.
OrgNames == SeqsUpTo(NameChars, MaxNameLen) \ {<<>>}

WhiteSpace == {" "}

\* c.toLowerCase() for one character.
LowerChar(c) ==
  CASE c = "G" -> "g"
    [] c = "V" -> "v"
    [] c = "C" -> "c"
    [] OTHER -> c

\* name.toLowerCase()
ToLowerCase(name) == [i \in 1..Len(name) |-> LowerChar(name[i])]

\* s.replace(/\s+/g, '-'): every maximal run of white space becomes one
\* hyphen; every other character is kept.
RECURSIVE ReplaceSpaceRuns(_)
ReplaceSpaceRuns(s) ==
  IF s = <<>> THEN <<>>
  ELSE IF Head(s) \in WhiteSpace
    THEN IF Tail(s) # <<>> /\ Head(Tail(s)) \in WhiteSpace
           THEN ReplaceSpaceRuns(Tail(s))
           ELSE <<"-">> \o ReplaceSpaceRuns(Tail(s))
    ELSE <<Head(s)>> \o ReplaceSpaceRuns(Tail(s))

\* const tenantId = name.toLowerCase().replace(/\s+/g, '-')
\* (organizationRoutes line 66)
DeriveTenantId(name) == ReplaceSpaceRuns(ToLowerCase(name))

\* ---------------------------------------------------------- database names
BaseDbName == <<"farm_tenants">>

\* The database name without the tenant id: every tenant shares one database.
TenantDbName_Unscoped(tenantId) == <<"tenant_">>

TenantDbName(tenantId) == <<"tenant_">> \o tenantId

\* ------------------------------------------------------- bootstrap script
\* schema.split(';')
RECURSIVE SplitSemi(_, _)
SplitSemi(s, cur) ==
  IF s = <<>> THEN <<cur>>
  ELSE IF Head(s) = ";" THEN <<cur>> \o SplitSemi(Tail(s), <<>>)
  ELSE SplitSemi(Tail(s), Append(cur, Head(s)))

RECURSIVE TrimLeft(_)
TrimLeft(s) == IF s # <<>> /\ Head(s) = " " THEN TrimLeft(Tail(s)) ELSE s

RECURSIVE TrimRight(_)
TrimRight(s) ==
  IF s # <<>> /\ s[Len(s)] = " " THEN TrimRight(SubSeq(s, 1, Len(s) - 1)) ELSE s

\* s.trim()
Trim(s) == TrimRight(TrimLeft(s))

\* .filter(s => s.length > 0)
NonEmpty(chunks) == SelectSeq(chunks, LAMBDA c : Len(c) > 0)

\* schema.split(';').map(s => s.trim()).filter(s => s.length > 0)
Statements(schema) ==
  LET chunks == SplitSemi(schema, <<>>)
  IN NonEmpty([i \in 1..Len(chunks) |-> Trim(chunks[i])])

\* Contents that src/schema.sql may have when it is read: two statements
\* separated by white space, a script whose first chunk is blank, and an
\* empty file.
SchemaFiles ==
  { <<"x", ";", " ", "y", ";", " ">>,
    <<" ", ";", "x">>,
    <<>> }

\* ------------------------------------------------------------------- state
VARIABLES
  tenantOrmInstances,  \* TenantManager.tenantOrmInstances: tenant id -> handle
  baseOrm,             \* TenantManager.baseOrm: handle or Null
  orms,                \* every MikroORM instance created so far, by handle
  pgDatabases,         \* database names in the cluster catalog (pg_database)
  createIssued,        \* bag of database names for which CREATE DATABASE was issued
  frame,               \* per request: position and locals of its TenantManager call
  req,                 \* per request: the request, what was attached, the response
  started,             \* number of requests received so far
  server,              \* the process: position of bootstrap() of index.ts, its ORM, exit code
  handler              \* per signal: position of the handler registered with process.on

vars == <<tenantOrmInstances, baseOrm, orms, pgDatabases, createIssued, frame, req, started,
          server, handler>>

Null == 0

IdleFrame ==
  [pc |-> "idle", tenantId |-> <<>>, baseOrm |-> Null, orm |-> Null,
   result |-> Null, slow |-> FALSE, migFailed |-> FALSE, bootstrap |-> "none",
   todo |-> <<>>, stmtFailed |-> 0, dbStep |-> "none", schema |-> <<>>, executed |-> <<>>]

IdleReq ==
  [kind |-> "none", header |-> Undefined, hostname |-> Undefined,
   name |-> <<>>, resolved |-> <<>>, tenantId |-> <<>>, tenantORM |-> Null, status |-> 0,
   message |-> "", nextCalled |-> FALSE, farmType |-> FALSE, persisted |-> FALSE]

Signals == {"SIGTERM", "SIGINT"}

\* bootstrap() of index.ts once the server listens: the startup ORM is open
\* and no statement is pending.
ListeningServer ==
  [pc |-> "listening", orm |-> "open", schema |-> <<>>, executed |-> <<>>, todo |-> <<>>,
   exitCode |-> -1]

IdleHandler == [pc |-> "idle", target |-> Null, closedBase |-> FALSE, visited |-> {}]

\* Databases left in the cluster by an earlier run of the process.
EarlierTenants == {<<"a">>}

Init ==
  /\ tenantOrmInstances = <<>>
  /\ baseOrm = Null
  /\ orms = <<>>
  /\ pgDatabases \in {{BaseDbName} \cup {TenantDbName(t) : t \in T} : T \in SUBSET EarlierTenants}
  /\ createIssued = EmptyBag
  /\ frame = [p \in Procs |-> IdleFrame]
  /\ req = [p \in Procs |-> IdleReq]
  /\ started = 0
  /\ server = ListeningServer
  /\ handler = [s \in Signals |-> IdleHandler]

\* A new MikroORM instance connected to database dbName.
NewOrm(dbName) == [dbName |-> dbName, open |-> TRUE]

\* The handle the next MikroORM.init will produce.
NextHandle == Len(orms) + 1

\* Map.set(key, value)
MapSet(m, k, v) == [x \in DOMAIN m \cup {k} |-> IF x = k THEN v ELSE m[x]]

TmVars == <<tenantOrmInstances, baseOrm, orms, pgDatabases, createIssued>>

SetFrame(p, f) == frame' = [frame EXCEPT ![p] = f]

LifeVars == <<server, handler>>

\* The process runs and the server accepts requests: app.listen was called
\* (index.ts line 81) and process.exit was not.
Listening == server.pc = "listening"

\* ---------------------------------------------------------- TenantManager
\* getTenantORM lines 93-96: cache the handle and return the cached entry.
\* No await separates the set from the get, so the caller receives orm.
CacheAndReturn(p, f) ==
  /\ tenantOrmInstances' = MapSet(tenantOrmInstances, f.tenantId, f.orm)
  /\ SetFrame(p, [f EXCEPT !.pc = "returned", !.result = f.orm, !.todo = <<>>,
                              !.schema = <<>>, !.executed = <<>>])

\* getTenantORM without the cache test: every call provisions.
getTenantORM_NoCacheTest(p, tenantId) ==
  /\ IF baseOrm = Null
       THEN SetFrame(p, [IdleFrame EXCEPT !.pc = "baseInit", !.tenantId = tenantId,
                                         !.slow = TRUE])
       ELSE SetFrame(p, [IdleFrame EXCEPT !.pc = "existsQuery", !.tenantId = tenantId,
                                         !.slow = TRUE, !.baseOrm = baseOrm])
  /\ UNCHANGED TmVars

\* getTenantORM up to its first await: the cache test, then on a miss the
\* call of getBaseORM, which either starts MikroORM.init(baseOptions) or
\* returns the existing base handle; in the latter case the existence query
\* is issued with it.
getTenantORM(p, tenantId) ==
  /\ IF tenantId \in DOMAIN tenantOrmInstances
       THEN SetFrame(p, [IdleFrame EXCEPT !.pc = "returned", !.tenantId = tenantId,
                                         !.result = tenantOrmInstances[tenantId]])
       ELSE IF baseOrm = Null
         THEN SetFrame(p, [IdleFrame EXCEPT !.pc = "baseInit", !.tenantId = tenantId,
                                           !.slow = TRUE])
         ELSE SetFrame(p, [IdleFrame EXCEPT !.pc = "existsQuery", !.tenantId = tenantId,
                                           !.slow = TRUE, !.baseOrm = baseOrm])
  /\ UNCHANGED TmVars

\* getBaseORM called by a route handler, up to its first await.
getBaseORM(p) ==
  /\ IF baseOrm = Null
       THEN SetFrame(p, [IdleFrame EXCEPT !.pc = "baseInit"])
       ELSE SetFrame(p, [IdleFrame EXCEPT !.pc = "baseReturned", !.result = baseOrm])
  /\ UNCHANGED TmVars

\* MikroORM.init(baseOptions) completes (line 17).  On success the new handle
\* is stored in this.baseOrm and returned; inside getTenantORM the existence
\* query is then issued.  On failure the error propagates to the caller.
BaseInitDone(p) ==
  /\ Listening
  /\ frame[p].pc = "baseInit"
  /\ \E ok \in BOOLEAN :
       IF ok
         THEN /\ orms' = Append(orms, NewOrm(BaseDbName))
              /\ baseOrm' = NextHandle
              /\ IF frame[p].slow
                   THEN SetFrame(p, [frame[p] EXCEPT !.pc = "existsQuery", !.baseOrm = NextHandle])
                   ELSE SetFrame(p, [frame[p] EXCEPT !.pc = "baseReturned", !.result = NextHandle])
         ELSE /\ SetFrame(p, [frame[p] EXCEPT !.pc = "failed"])
              /\ UNCHANGED <<orms, baseOrm>>
  /\ UNCHANGED <<tenantOrmInstances, pgDatabases, createIssued, req, started, LifeVars>>

\* The catalog query completes, under a lock shared by all tenants: the
\* call goes on only when no other call is past its own catalog query.
ExistsQueryDone_GlobalLock(p) ==
  /\ Listening
  /\ frame[p].pc = "existsQuery"
  /\ \A q \in Procs \ {p} : frame[q].pc \notin {"createDb", "tenantInit", "migrate", "bootstrap"}
  /\ \E ok \in BOOLEAN :
       IF ok /\ TenantDbName(frame[p].tenantId) \notin pgDatabases
         THEN /\ createIssued' = createIssued (+) SetToBag({TenantDbName(frame[p].tenantId)})
              /\ SetFrame(p, [frame[p] EXCEPT !.pc = "createDb", !.dbStep = "absent"])
         ELSE /\ SetFrame(p, [frame[p] EXCEPT !.pc = "tenantInit", !.baseOrm = Null,
                                              !.dbStep = IF ok THEN "exists" ELSE "checkFailed"])
              /\ UNCHANGED createIssued
  /\ UNCHANGED <<tenantOrmInstances, baseOrm, orms, pgDatabases, req, started, LifeVars>>

\* The catalog query completes, without the catch of line 40: an error of
\* the query leaves getTenantORM.
ExistsQueryDone_ErrorEscapes(p) ==
  /\ Listening
  /\ frame[p].pc = "existsQuery"
  /\ \E ok \in BOOLEAN :
       IF ok /\ TenantDbName(frame[p].tenantId) \notin pgDatabases
         THEN /\ createIssued' = createIssued (+) SetToBag({TenantDbName(frame[p].tenantId)})
              /\ SetFrame(p, [frame[p] EXCEPT !.pc = "createDb", !.dbStep = "absent"])
         ELSE /\ IF ok
                   THEN SetFrame(p, [frame[p] EXCEPT !.pc = "tenantInit", !.baseOrm = Null,
                                                     !.dbStep = "exists"])
                   ELSE SetFrame(p, [frame[p] EXCEPT !.pc = "failed", !.baseOrm = Null])
              /\ UNCHANGED createIssued
  /\ UNCHANGED <<tenantOrmInstances, baseOrm, orms, pgDatabases, req, started, LifeVars>>

\* The catalog query completes, and CREATE DATABASE is issued whatever the
\* query said: also when it failed or found the database.
ExistsQueryDone_AlwaysCreate(p) ==
  /\ Listening
  /\ frame[p].pc = "existsQuery"
  /\ \E ok \in BOOLEAN :
       /\ createIssued' = createIssued (+) SetToBag({TenantDbName(frame[p].tenantId)})
       /\ SetFrame(p, [frame[p] EXCEPT !.pc = "createDb",
                                       !.dbStep = IF ~ok THEN "checkFailed"
                                                  ELSE IF TenantDbName(frame[p].tenantId) \in pgDatabases
                                                    THEN "exists" ELSE "absent"])
  /\ UNCHANGED <<tenantOrmInstances, baseOrm, orms, pgDatabases, req, started, LifeVars>>

\* The catalog query completes (lines 30-39).  An empty result makes the code
\* issue CREATE DATABASE; a non-empty result or an error (caught at line 40)
\* leads to MikroORM.init(tenantOptions).
ExistsQueryDone(p) ==
  /\ Listening
  /\ frame[p].pc = "existsQuery"
  /\ \E ok \in BOOLEAN :
       IF ok /\ TenantDbName(frame[p].tenantId) \notin pgDatabases
         THEN /\ createIssued' = createIssued (+) SetToBag({TenantDbName(frame[p].tenantId)})
              /\ SetFrame(p, [frame[p] EXCEPT !.pc = "createDb", !.dbStep = "absent"])
         ELSE /\ SetFrame(p, [frame[p] EXCEPT !.pc = "tenantInit", !.baseOrm = Null,
                                              !.dbStep = IF ok THEN "exists" ELSE "checkFailed"])
              /\ UNCHANGED createIssued
  /\ UNCHANGED <<tenantOrmInstances, baseOrm, orms, pgDatabases, req, started, LifeVars>>

\* CREATE DATABASE completes (line 37).  It can succeed only when the name is
\* not yet in the catalog; an error is caught at line 40.  Either way
\* MikroORM.init(tenantOptions) is started; the base connection is not used
\* again by this call, so the frame drops it.  dbStep records how lines
\* 28-42 ended, until the connect step completes.
CreateDbDone(p) ==
  /\ Listening
  /\ frame[p].pc = "createDb"
  /\ \E ok \in BOOLEAN :
       IF ok /\ TenantDbName(frame[p].tenantId) \notin pgDatabases
         THEN /\ pgDatabases' = pgDatabases \cup {TenantDbName(frame[p].tenantId)}
              /\ SetFrame(p, [frame[p] EXCEPT !.pc = "tenantInit", !.baseOrm = Null,
                                              !.dbStep = "created"])
         ELSE /\ UNCHANGED pgDatabases
              /\ SetFrame(p, [frame[p] EXCEPT !.pc = "tenantInit", !.baseOrm = Null,
                                              !.dbStep = "createFailed"])
  /\ UNCHANGED <<tenantOrmInstances, baseOrm, orms, createIssued, req, started, LifeVars>>

\* MikroORM.init(tenantOptions) completes, with the handle put into the map
\* before migrator.up() is awaited.
TenantInitDone_CacheEarly(p) ==
  /\ Listening
  /\ frame[p].pc = "tenantInit"
  /\ \E ok \in BOOLEAN :
       IF ok
         THEN /\ orms' = Append(orms, NewOrm(TenantDbName(frame[p].tenantId)))
              /\ tenantOrmInstances' = MapSet(tenantOrmInstances, frame[p].tenantId, NextHandle)
              /\ SetFrame(p, [frame[p] EXCEPT !.pc = "migrate", !.orm = NextHandle,
                                              !.dbStep = "none"])
         ELSE /\ SetFrame(p, [frame[p] EXCEPT !.pc = "failed", !.dbStep = "none"])
              /\ UNCHANGED <<orms, tenantOrmInstances>>
  /\ UNCHANGED <<baseOrm, pgDatabases, createIssued, req, started, LifeVars>>

\* MikroORM.init(tenantOptions) completes (line 55).  On success migrator.up()
\* is started on the new handle; on failure the error leaves getTenantORM.
TenantInitDone(p) ==
  /\ Listening
  /\ frame[p].pc = "tenantInit"
  /\ \E ok \in BOOLEAN :
       IF ok
         THEN /\ orms' = Append(orms, NewOrm(TenantDbName(frame[p].tenantId)))
              /\ SetFrame(p, [frame[p] EXCEPT !.pc = "migrate", !.orm = NextHandle,
                                              !.dbStep = "none"])
         ELSE /\ SetFrame(p, [frame[p] EXCEPT !.pc = "failed", !.dbStep = "none"])
              /\ UNCHANGED orms
  /\ UNCHANGED <<tenantOrmInstances, baseOrm, pgDatabases, createIssued, req, started, LifeVars>>

\* migrator.up() completes, without the inner try/catch of lines 67-90: an
\* error reading the script leaves getTenantORM.
MigrateDone_ReadErrorEscapes(p) ==
  /\ Listening
  /\ frame[p].pc = "migrate"
  /\ \/ CacheAndReturn(p, frame[p])
     \/ /\ SetFrame(p, [frame[p] EXCEPT !.pc = "failed", !.migFailed = TRUE,
                                         !.bootstrap = "readFailed"])
        /\ UNCHANGED tenantOrmInstances
     \/ \E schema \in SchemaFiles :
          LET f == [frame[p] EXCEPT !.migFailed = TRUE, !.bootstrap = "ran",
                                    !.schema = schema, !.todo = Statements(schema)]
          IN IF f.todo = <<>>
               THEN CacheAndReturn(p, f)
               ELSE /\ SetFrame(p, [f EXCEPT !.pc = "bootstrap"])
                    /\ UNCHANGED tenantOrmInstances
  /\ UNCHANGED <<baseOrm, orms, pgDatabases, createIssued, req, started, LifeVars>>

\* migrator.up() completes (lines 58-93).  On success the handle is cached.
\* On failure the script is read: a read error is caught at line 88 and the
\* handle is cached; otherwise the first statement is issued, or the handle
\* is cached at once when the script has no statement.
MigrateDone(p) ==
  /\ Listening
  /\ frame[p].pc = "migrate"
  /\ \/ CacheAndReturn(p, frame[p])
     \/ CacheAndReturn(p, [frame[p] EXCEPT !.migFailed = TRUE, !.bootstrap = "readFailed"])
     \/ \E schema \in SchemaFiles :
          LET f == [frame[p] EXCEPT !.migFailed = TRUE, !.bootstrap = "ran",
                                    !.schema = schema, !.todo = Statements(schema)]
          IN IF f.todo = <<>>
               THEN CacheAndReturn(p, f)
               ELSE /\ SetFrame(p, [f EXCEPT !.pc = "bootstrap"])
                    /\ UNCHANGED tenantOrmInstances
  /\ UNCHANGED <<baseOrm, orms, pgDatabases, createIssued, req, started, LifeVars>>

\* One statement of the script completes, with the loop left at the first
\* error: the statements after a failing one are not issued.
BootstrapStmtDone_StopOnError(p) ==
  /\ Listening
  /\ frame[p].pc = "bootstrap"
  /\ \E ok \in BOOLEAN :
       LET f == [frame[p] EXCEPT !.todo = Tail(@),
                                 !.executed = Append(@, Head(frame[p].todo)),
                                 !.stmtFailed = IF ok THEN @ ELSE @ + 1]
       IN IF f.todo = <<>> \/ ~ok
            THEN CacheAndReturn(p, f)
            ELSE /\ SetFrame(p, f)
                 /\ UNCHANGED tenantOrmInstances
  /\ UNCHANGED <<baseOrm, orms, pgDatabases, createIssued, req, started, LifeVars>>

\* One statement of the script completes (lines 79-85); an error is caught
\* at line 82.  The next statement is issued, or after the last one the
\* handle is cached.
BootstrapStmtDone(p) ==
  /\ Listening
  /\ frame[p].pc = "bootstrap"
  /\ \E ok \in BOOLEAN :
       LET f == [frame[p] EXCEPT !.todo = Tail(@),
                                 !.executed = Append(@, Head(frame[p].todo)),
                                 !.stmtFailed = IF ok THEN @ ELSE @ + 1]
       IN IF f.todo = <<>>
            THEN CacheAndReturn(p, f)
            ELSE /\ SetFrame(p, f)
                 /\ UNCHANGED tenantOrmInstances
  /\ UNCHANGED <<baseOrm, orms, pgDatabases, createIssued, req, started, LifeVars>>

\* The server takes one more request, up to max requests in a run.
Receive(max) ==
  /\ Listening
  /\ started < max
  /\ started' = started + 1
  /\ UNCHANGED LifeVars

\* ------------------------------------------------------- tenant middleware
\* const tenantId = req.headers['x-tenant-id'] || req.hostname.split('.')[0]
\* (lines 129-130).  The host name is only looked at when the header is falsy.
\* The two sources in the other order: the host name wins over the header.
ResolveTenantId_HostFirst(header, hostname) ==
  IF FirstLabel(hostname.value) # <<>> THEN FirstLabel(hostname.value) ELSE header.value

ResolveTenantId(header, hostname) ==
  IF Truthy(header) THEN header.value ELSE FirstLabel(hostname.value)

\* A request arrives under /api and the middleware runs up to its first await
\* (lines 127-138).  With a falsy header and no host name, split is called on
\* undefined and the handler's promise rejects before any response is sent.
tenantMiddleware(p, header, hostname) ==
  /\ frame[p].pc = "idle"
  /\ LET r == [IdleReq EXCEPT !.kind = "api", !.header = header, !.hostname = hostname]
         tenantId == ResolveTenantId(header, hostname)
     IN IF ~Truthy(header) /\ ~hostname.defined
          THEN /\ req' = [req EXCEPT ![p] = r]
               /\ SetFrame(p, [IdleFrame EXCEPT !.pc = "threw"])
               /\ UNCHANGED TmVars
          ELSE IF tenantId = <<>>
            THEN /\ req' = [req EXCEPT ![p] = [r EXCEPT !.status = 400,
                                                   !.message = "Tenant identification required"]]
                 /\ SetFrame(p, [IdleFrame EXCEPT !.pc = "done"])
                 /\ UNCHANGED TmVars
            ELSE /\ req' = [req EXCEPT ![p] = [r EXCEPT !.resolved = tenantId]]
                 /\ getTenantORM(p, tenantId)

\* getTenantORM returned: attach tenant id and handle, call next()
\* (lines 138-144).
MwNext(p) ==
  /\ Listening
  /\ req[p].kind = "api"
  /\ frame[p].pc = "returned"
  /\ req' = [req EXCEPT ![p] = [@ EXCEPT !.tenantId = req[p].resolved,
                                        !.tenantORM = frame[p].result,
                                        !.nextCalled = TRUE]]
  /\ SetFrame(p, [IdleFrame EXCEPT !.pc = "done"])
  /\ UNCHANGED <<TmVars, started, LifeVars>>

\* getTenantORM failed: respond 500 (lines 145-148).
MwCatch(p) ==
  /\ Listening
  /\ req[p].kind = "api"
  /\ frame[p].pc = "failed"
  /\ req' = [req EXCEPT ![p] = [@ EXCEPT !.status = 500,
                                        !.message = "Error initializing tenant context"]]
  /\ SetFrame(p, [IdleFrame EXCEPT !.pc = "done"])
  /\ UNCHANGED <<TmVars, started, LifeVars>>

\* ----------------------------------------------------- organization routes
\* GET /organizations as if createOrganizationRoutes were mounted behind the
\* tenant middleware: without a tenant id the request is answered 400.
OrgRequest_BehindMiddleware(p, header, hostname) ==
  /\ frame[p].pc = "idle"
  /\ IF ResolveTenantId(header, hostname) = <<>>
       THEN /\ req' = [req EXCEPT ![p] = [IdleReq EXCEPT !.kind = "org", !.header = header,
                                                         !.hostname = hostname, !.status = 400,
                                                         !.message = "Tenant identification required"]]
            /\ SetFrame(p, [IdleFrame EXCEPT !.pc = "done"])
            /\ UNCHANGED TmVars
       ELSE /\ req' = [req EXCEPT ![p] = [IdleReq EXCEPT !.kind = "org", !.header = header,
                                                         !.hostname = hostname]]
            /\ getBaseORM(p)

\* GET /organizations (or /farms), whatever the header and the host name:
\* the handler asks for the base handle (organizationRoutes lines 9-11).
OrgRequest(p, header, hostname) ==
  /\ frame[p].pc = "idle"
  /\ req' = [req EXCEPT ![p] = [IdleReq EXCEPT !.kind = "org", !.header = header,
                                               !.hostname = hostname]]
  /\ getBaseORM(p)

\* getBaseORM returned and em.find completed: respond with the records, or
\* with 500 when the query failed.
OrgFindDone(p) ==
  /\ Listening
  /\ req[p].kind = "org"
  /\ frame[p].pc = "baseReturned"
  /\ \E ok \in BOOLEAN :
       req' = [req EXCEPT ![p] = [@ EXCEPT !.status = IF ok THEN 200 ELSE 500,
                                           !.message = IF ok THEN "" ELSE "Error fetching organizations"]]
  /\ SetFrame(p, [IdleFrame EXCEPT !.pc = "done"])
  /\ UNCHANGED <<TmVars, started, LifeVars>>

\* getBaseORM failed: respond 500.
OrgCatch(p) ==
  /\ Listening
  /\ req[p].kind = "org"
  /\ frame[p].pc = "failed"
  /\ req' = [req EXCEPT ![p] = [@ EXCEPT !.status = 500,
                                        !.message = "Error fetching organizations"]]
  /\ SetFrame(p, [IdleFrame EXCEPT !.pc = "done"])
  /\ UNCHANGED <<TmVars, started, LifeVars>>

\* POST /organizations (or /farms) arrives: the body is read and the handler
\* asks for the base handle (organizationRoutes lines 41-44).  An absent name
\* is the empty sequence, an absent farmType is FALSE.
OrgCreateRequest(p, header, hostname, name, farmType) ==
  /\ frame[p].pc = "idle"
  /\ req' = [req EXCEPT ![p] = [IdleReq EXCEPT !.kind = "create", !.header = header,
                                               !.hostname = hostname, !.name = name,
                                               !.farmType = farmType]]
  /\ getBaseORM(p)

\* getBaseORM returned to POST /organizations (lines 44-51): a body without
\* name or farmType is answered 400; otherwise em.findOne is started.
OrgCreateValidate(p) ==
  /\ Listening
  /\ req[p].kind = "create"
  /\ frame[p].pc = "baseReturned"
  /\ IF req[p].name = <<>> \/ ~req[p].farmType
       THEN /\ req' = [req EXCEPT ![p] = [@ EXCEPT !.status = 400,
                                                 !.message = "Name and farmType are required"]]
            /\ SetFrame(p, [IdleFrame EXCEPT !.pc = "done"])
       ELSE /\ SetFrame(p, [frame[p] EXCEPT !.pc = "findOne"])
            /\ UNCHANGED req
  /\ UNCHANGED <<TmVars, started, LifeVars>>

\* em.findOne(Organization, { name }) completes (lines 51-63): an error goes
\* to the catch of line 75, an existing organization is answered 409,
\* otherwise persistAndFlush of the new organization is started.
OrgFindOneDone(p) ==
  /\ Listening
  /\ req[p].kind = "create"
  /\ frame[p].pc = "findOne"
  /\ \E found \in {"error", "existing", "none"} :
       IF found = "none"
         THEN /\ SetFrame(p, [IdleFrame EXCEPT !.pc = "persist"])
              /\ UNCHANGED req
         ELSE /\ req' = [req EXCEPT ![p] =
                          IF found = "existing"
                            THEN [@ EXCEPT !.status = 409,
                                           !.message = "Organization already exists"]
                            ELSE [@ EXCEPT !.status = 500,
                                           !.message = "Error creating organization"]]
              /\ SetFrame(p, [IdleFrame EXCEPT !.pc = "done"])
  /\ UNCHANGED <<TmVars, started, LifeVars>>

\* POST /organizations: em.persistAndFlush(organization) completes (lines
\* 63-69).  On success the tenant id is derived from the name and
\* getTenantORM is called with it; an error goes to the catch of line 75.
OrgPersistDone(p) ==
  /\ Listening
  /\ req[p].kind = "create"
  /\ frame[p].pc = "persist"
  /\ \E ok \in BOOLEAN :
       IF ok
         THEN /\ req' = [req EXCEPT ![p] = [@ EXCEPT !.resolved = DeriveTenantId(req[p].name),
                                                   !.persisted = TRUE]]
              /\ getTenantORM(p, DeriveTenantId(req[p].name))
         ELSE /\ req' = [req EXCEPT ![p] = [@ EXCEPT !.status = 500,
                                                   !.message = "Error creating organization"]]
              /\ SetFrame(p, [IdleFrame EXCEPT !.pc = "done"])
              /\ UNCHANGED TmVars
  /\ UNCHANGED <<started, LifeVars>>

\* getTenantORM returned to POST /organizations: respond 201 with the
\* organization and the tenant id (lines 71-74).
OrgCreated(p) ==
  /\ Listening
  /\ req[p].kind = "create"
  /\ frame[p].pc = "returned"
  /\ req' = [req EXCEPT ![p] = [@ EXCEPT !.status = 201, !.tenantId = req[p].resolved]]
  /\ SetFrame(p, [IdleFrame EXCEPT !.pc = "done"])
  /\ UNCHANGED <<TmVars, started, LifeVars>>

\* getTenantORM failed in POST /organizations: respond 500 (lines 75-78).
OrgCreateCatch(p) ==
  /\ Listening
  /\ req[p].kind = "create"
  /\ frame[p].pc = "failed"
  /\ req' = [req EXCEPT ![p] = [@ EXCEPT !.status = 500,
                                        !.message = "Error creating organization"]]
  /\ SetFrame(p, [IdleFrame EXCEPT !.pc = "done"])
  /\ UNCHANGED <<TmVars, started, LifeVars>>

\* The request is over; its slot takes the next request.
Finish(p) ==
  /\ Listening
  /\ frame[p].pc \in {"done", "threw"}
  /\ SetFrame(p, IdleFrame)
  /\ req' = [req EXCEPT ![p] = IdleReq]
  /\ UNCHANGED <<TmVars, started, LifeVars>>

\* ------------------------------------------------------- process lifecycle
\* bootstrap() of index.ts at its first await, MikroORM.init(config).
StartingServer ==
  [pc |-> "ormInit", orm |-> "none", schema |-> <<>>, executed |-> <<>>, todo |-> <<>>,
   exitCode |-> -1]

ServerVars == <<tenantOrmInstances, baseOrm, orms, pgDatabases, createIssued, frame, req,
                started, handler>>

\* MikroORM.init(config) completes, with its error ignored: bootstrap goes
\* on without a connection.
OrmInitDone_FailureIgnored ==
  /\ server.pc = "ormInit"
  /\ \E ok \in BOOLEAN :
       IF ok
         THEN server' = [server EXCEPT !.pc = "migrate", !.orm = "open"]
         ELSE server' = [server EXCEPT !.pc = "migrate"]
  /\ UNCHANGED ServerVars

\* MikroORM.init(config) completes (index.ts line 18).  On success
\* migrator.up() is started; on failure the catch of line 100 ends the
\* process with exit code 1.
OrmInitDone ==
  /\ server.pc = "ormInit"
  /\ \E ok \in BOOLEAN :
       IF ok
         THEN server' = [server EXCEPT !.pc = "migrate", !.orm = "open"]
         ELSE server' = [server EXCEPT !.pc = "exited", !.exitCode = 1]
  /\ UNCHANGED ServerVars

\* migrator.up() completes (index.ts lines 21-53).  When it succeeded, or
\* when it failed and the script could not be read (caught at line 50), the
\* code runs on to new TenantManager(), app.listen and process.on.  When it
\* failed and the script was read, the first statement is issued, or the
\* server listens at once when the script has no statement.
StartupMigrateDone ==
  /\ server.pc = "migrate"
  /\ \/ server' = [server EXCEPT !.pc = "listening"]
     \/ \E schema \in SchemaFiles :
          IF Statements(schema) = <<>>
            THEN server' = [server EXCEPT !.pc = "listening"]
            ELSE server' = [server EXCEPT !.pc = "schema", !.schema = schema,
                                          !.todo = Statements(schema)]
  /\ UNCHANGED ServerVars

\* One statement of the script completes at startup (index.ts lines 42-48);
\* an error is caught at line 45.  The next statement is issued, or after
\* the last one the server listens.
StartupStmtDone ==
  /\ server.pc = "schema"
  /\ \E ok \in BOOLEAN :
       IF Tail(server.todo) = <<>>
         THEN server' = [server EXCEPT !.pc = "listening", !.schema = <<>>,
                                       !.executed = <<>>, !.todo = <<>>]
         ELSE server' = [server EXCEPT !.todo = Tail(@),
                                       !.executed = Append(@, Head(server.todo))]
  /\ UNCHANGED ServerVars

HandlerVars == <<tenantOrmInstances, baseOrm, pgDatabases, createIssued, frame, req, started>>

\* closeConnections, the for loop of lines 113-115 taking its next entry:
\* h is the handler's record so far.  The iterator of a Map is live, so an
\* entry added while the loop is suspended is still visited, and an entry is
\* visited with the value it has at that time.  When no entry is left
\* closeConnections returns and the handler starts orm.close() (index.ts
\* line 90).  The order among the entries is left open.
SweepNext(s, h) ==
  IF DOMAIN tenantOrmInstances \subseteq h.visited
    THEN handler' = [handler EXCEPT ![s] = [h EXCEPT !.pc = "closeOrm", !.target = Null]]
    ELSE \E k \in DOMAIN tenantOrmInstances \ h.visited :
           handler' = [handler EXCEPT ![s] = [h EXCEPT !.pc = "closeTenant",
                                                      !.target = tenantOrmInstances[k],
                                                      !.visited = @ \cup {k}]]

\* The process receives signal s and its handler runs up to its first await
\* (index.ts lines 87-89, TenantManager lines 108-115): closing the base
\* handle when there is one, else the first cached tenant handle.
Signal(s) ==
  /\ Listening
  /\ handler[s].pc = "idle"
  /\ IF baseOrm # Null
       THEN handler' = [handler EXCEPT ![s] = [IdleHandler EXCEPT !.pc = "closeBase",
                                                                 !.target = baseOrm,
                                                                 !.closedBase = TRUE]]
       ELSE SweepNext(s, IdleHandler)
  /\ UNCHANGED <<HandlerVars, orms, server>>

\* this.baseOrm.close() completes (line 110).  An error is not caught: it
\* leaves closeConnections and rejects the handler's promise.
CloseBaseDone(s) ==
  /\ Listening
  /\ handler[s].pc = "closeBase"
  /\ \E ok \in BOOLEAN :
       IF ok
         THEN /\ orms' = [orms EXCEPT ![handler[s].target].open = FALSE]
              /\ SweepNext(s, handler[s])
         ELSE /\ handler' = [handler EXCEPT ![s].pc = "rejected"]
              /\ UNCHANGED orms
  /\ UNCHANGED <<HandlerVars, server>>

\* orm.close() of a cached tenant handle completes, with the closed handle
\* deleted from the map.
CloseTenantDone_Evicts(s) ==
  /\ Listening
  /\ handler[s].pc = "closeTenant"
  /\ \E ok \in BOOLEAN :
       IF ok
         THEN /\ orms' = [orms EXCEPT ![handler[s].target].open = FALSE]
              /\ tenantOrmInstances' =
                   [t \in {k \in DOMAIN tenantOrmInstances :
                             tenantOrmInstances[k] # handler[s].target} |->
                      tenantOrmInstances[t]]
              /\ SweepNext(s, handler[s])
         ELSE /\ handler' = [handler EXCEPT ![s].pc = "rejected"]
              /\ UNCHANGED <<orms, tenantOrmInstances>>
  /\ UNCHANGED <<baseOrm, pgDatabases, createIssued, frame, req, started, server>>

\* orm.close() of a cached tenant handle completes (line 114).  An error is
\* not caught either.
CloseTenantDone(s) ==
  /\ Listening
  /\ handler[s].pc = "closeTenant"
  /\ \E ok \in BOOLEAN :
       IF ok
         THEN /\ orms' = [orms EXCEPT ![handler[s].target].open = FALSE]
              /\ SweepNext(s, handler[s])
         ELSE /\ handler' = [handler EXCEPT ![s].pc = "rejected"]
              /\ UNCHANGED orms
  /\ UNCHANGED <<HandlerVars, server>>

\* orm.close() of the startup ORM completes (index.ts lines 90-91): on
\* success process.exit(0) ends the process; an error rejects the handler's
\* promise.
CloseOrmDone(s) ==
  /\ Listening
  /\ handler[s].pc = "closeOrm"
  /\ \E ok \in BOOLEAN :
       IF ok
         THEN /\ server' = [server EXCEPT !.pc = "exited", !.orm = "closed", !.exitCode = 0]
              /\ UNCHANGED handler
         ELSE /\ handler' = [handler EXCEPT ![s].pc = "rejected"]
              /\ UNCHANGED server
  /\ UNCHANGED <<HandlerVars, orms>>

\* -------------------------------------------------------------------- spec
\* Requests of the concurrent specification, as <<header, host name>>: tenant
\* b named by the header (the host names another tenant), and tenant a named
\* by the host alone.
ApiRequests ==
  { <<Str(<<"b">>), Str(<<"a", ".">>)>>,
    <<Undefined, Str(<<"a", ".">>)>> }

\* A request under /api reaches the tenant middleware.
ApiRequest(p, header, hostname) ==
  /\ Receive(MaxRequests)
  /\ tenantMiddleware(p, header, hostname)

\* A request under /organizations or /farms reaches its handler.
OrgApiRequest(p) ==
  /\ Receive(MaxRequests)
  /\ OrgRequest(p, Undefined, Str(Localhost))

Next ==
  \/ \E p \in Procs, r \in ApiRequests : ApiRequest(p, r[1], r[2])
  \/ \E p \in Procs : MwNext(p)
  \/ \E p \in Procs : MwCatch(p)
  \/ \E p \in Procs : OrgApiRequest(p)
  \/ \E p \in Procs : OrgFindDone(p)
  \/ \E p \in Procs : OrgCatch(p)
  \/ \E p \in Procs : Finish(p)
  \/ \E p \in Procs : BaseInitDone(p)
  \/ \E p \in Procs : ExistsQueryDone(p)
  \/ \E p \in Procs : CreateDbDone(p)
  \/ \E p \in Procs : TenantInitDone(p)
  \/ \E p \in Procs : MigrateDone(p)
  \/ \E p \in Procs : BootstrapStmtDone(p)

Spec == Init /\ [][Next]_vars

\* One request at a time, with every header and host name of the bounds: the
\* specification of the resolver and of calls that do not overlap.
SeqProc == "r1"

\* A request under /api, one at a time.
SeqApiRequest(header, hostname) ==
  /\ Receive(MaxSeqRequests)
  /\ tenantMiddleware(SeqProc, header, hostname)

NextMw ==
  \/ \E header \in Headers, hostname \in Hostnames : SeqApiRequest(header, hostname)
  \/ MwNext(SeqProc)
  \/ MwCatch(SeqProc)
  \/ Finish(SeqProc)
  \/ BaseInitDone(SeqProc)
  \/ ExistsQueryDone(SeqProc)
  \/ CreateDbDone(SeqProc)
  \/ TenantInitDone(SeqProc)
  \/ MigrateDone(SeqProc)
  \/ BootstrapStmtDone(SeqProc)

MwSpec == Init /\ [][NextMw]_vars

\* The whole life of the process: startup, concurrent requests under /api,
\* signals.
LifeInit ==
  /\ tenantOrmInstances = <<>>
  /\ baseOrm = Null
  /\ orms = <<>>
  /\ pgDatabases \in {{BaseDbName} \cup {TenantDbName(t) : t \in T} : T \in SUBSET EarlierTenants}
  /\ createIssued = EmptyBag
  /\ frame = [p \in Procs |-> IdleFrame]
  /\ req = [p \in Procs |-> IdleReq]
  /\ started = 0
  /\ server = StartingServer
  /\ handler = [s \in Signals |-> IdleHandler]

\* The signal that ends the process in this specification.
LifeSignal == "SIGTERM"

LifeApiRequest(p, header, hostname) ==
  /\ Receive(MaxLifeRequests)
  /\ tenantMiddleware(p, header, hostname)

NextLife ==
  \/ OrmInitDone
  \/ StartupMigrateDone
  \/ StartupStmtDone
  \/ \E p \in Procs, r \in ApiRequests : LifeApiRequest(p, r[1], r[2])
  \/ \E p \in Procs : MwNext(p)
  \/ \E p \in Procs : MwCatch(p)
  \/ \E p \in Procs : Finish(p)
  \/ \E p \in Procs : BaseInitDone(p)
  \/ \E p \in Procs : ExistsQueryDone(p)
  \/ \E p \in Procs : CreateDbDone(p)
  \/ \E p \in Procs : TenantInitDone(p)
  \/ \E p \in Procs : MigrateDone(p)
  \/ \E p \in Procs : BootstrapStmtDone(p)
  \/ Signal(LifeSignal)
  \/ CloseBaseDone(LifeSignal)
  \/ CloseTenantDone(LifeSignal)
  \/ CloseOrmDone(LifeSignal)

LifeSpec == LifeInit /\ [][NextLife]_vars

\* Requests that setupRoutes dispatches: method, path and, for POST, the
\* name and farmType of the body.
Routes ==
  {[method |-> "GET", path |-> p, name |-> <<>>, farmType |-> FALSE] :
     p \in {"/organizations", "/farms", "/api/crops"}}
  \cup {[method |-> "POST", path |-> "/organizations", name |-> n, farmType |-> f] :
          n \in {<<>>, <<"g">>}, f \in BOOLEAN}

\* setupRoutes (routes/index.ts lines 8-30): /organizations and /farms go to
\* the organization handlers; a path under /api goes through the tenant
\* middleware.
Route(p, r, header, hostname) ==
  /\ Receive(MaxRouteRequests)
  /\ IF r.path \in {"/organizations", "/farms"}
       THEN IF r.method = "POST"
              THEN OrgCreateRequest(p, header, hostname, r.name, r.farmType)
              ELSE OrgRequest(p, header, hostname)
       ELSE tenantMiddleware(p, header, hostname)

\* Requests one at a time, over every route, header and host name.
NextRoute ==
  \/ \E r \in Routes, header \in Headers, hostname \in Hostnames :
       Route(SeqProc, r, header, hostname)
  \/ MwNext(SeqProc)
  \/ MwCatch(SeqProc)
  \/ OrgFindDone(SeqProc)
  \/ OrgCatch(SeqProc)
  \/ OrgCreateValidate(SeqProc)
  \/ OrgFindOneDone(SeqProc)
  \/ OrgPersistDone(SeqProc)
  \/ OrgCreated(SeqProc)
  \/ OrgCreateCatch(SeqProc)
  \/ Finish(SeqProc)
  \/ BaseInitDone(SeqProc)
  \/ ExistsQueryDone(SeqProc)
  \/ CreateDbDone(SeqProc)
  \/ TenantInitDone(SeqProc)
  \/ MigrateDone(SeqProc)
  \/ BootstrapStmtDone(SeqProc)

RouteSpec == Init /\ [][NextRoute]_vars

\* The life of the process with one request at a time and both signals.
NextLifeSeq ==
  \/ OrmInitDone
  \/ StartupMigrateDone
  \/ StartupStmtDone
  \/ \E r \in ApiRequests : SeqApiRequest(r[1], r[2])
  \/ MwNext(SeqProc)
  \/ MwCatch(SeqProc)
  \/ Finish(SeqProc)
  \/ BaseInitDone(SeqProc)
  \/ ExistsQueryDone(SeqProc)
  \/ CreateDbDone(SeqProc)
  \/ TenantInitDone(SeqProc)
  \/ MigrateDone(SeqProc)
  \/ BootstrapStmtDone(SeqProc)
  \/ \E s \in Signals : Signal(s)
  \/ \E s \in Signals : CloseBaseDone(s)
  \/ \E s \in Signals : CloseTenantDone(s)
  \/ \E s \in Signals : CloseOrmDone(s)

LifeSeqSpec == LifeInit /\ [][NextLifeSeq]_vars

\* One POST /organizations with every name of the bounds, from the point
\* where the handler awaits persistAndFlush: getBaseORM has returned the
\* base handle (line 44) and the name passed the tests of lines 46-54.
CreateInit ==
  /\ tenantOrmInstances = <<>>
  /\ baseOrm = 1
  /\ orms = <<NewOrm(BaseDbName)>>
  /\ pgDatabases = {BaseDbName}
  /\ createIssued = EmptyBag
  /\ frame = [p \in Procs |-> IF p = SeqProc THEN [IdleFrame EXCEPT !.pc = "persist"]
                                              ELSE IdleFrame]
  /\ \E name \in OrgNames :
       req = [p \in Procs |-> IF p = SeqProc THEN [IdleReq EXCEPT !.kind = "create", !.name = name]
                                             ELSE IdleReq]
  /\ started = 1
  /\ server = ListeningServer
  /\ handler = [s \in Signals |-> IdleHandler]

NextCreate ==
  \/ OrgPersistDone(SeqProc)
  \/ OrgCreated(SeqProc)
  \/ OrgCreateCatch(SeqProc)
  \/ ExistsQueryDone(SeqProc)
  \/ CreateDbDone(SeqProc)
  \/ TenantInitDone(SeqProc)
  \/ MigrateDone(SeqProc)
  \/ BootstrapStmtDone(SeqProc)

CreateSpec == CreateInit /\ [][NextCreate]_vars

TypeOK ==
  /\ baseOrm \in 0..Len(orms)
  /\ \A t \in DOMAIN tenantOrmInstances : tenantOrmInstances[t] \in 1..Len(orms)
  /\ started \in 0..MaxRequests

\* ============================================================== properties
\* Positions of getTenantORM between the cache miss and the cache insert.
ProvisioningPcs == {"existsQuery", "createDb", "tenantInit", "migrate", "bootstrap"}

\* Request p is inside the cache-miss branch of getTenantORM(t).
InSlowPath(p, t) ==
  /\ frame[p].slow
  /\ frame[p].tenantId = t
  /\ frame[p].pc \in ProvisioningPcs \cup {"baseInit"}

\* Request p went through the cache-miss branch of getTenantORM(t) and has
\* its handle.  Two such requests at once overlapped: had one started after
\* the other cached its handle, it would have taken the cache hit.
ReturnedSlow(p, t) ==
  /\ frame[p].pc = "returned"
  /\ frame[p].slow
  /\ frame[p].tenantId = t

TenantIds == {frame[p].tenantId : p \in Procs} \ {<<>>}

\* C1: when two getTenantORM(t) calls overlap, exactly one CREATE DATABASE
\* tenant_t is issued in total and both callers receive the same handle, the
\* one cached under t.
C1_OverlapSingleFlight ==
  \A p, q \in Procs : \A t \in TenantIds :
    (p # q /\ ReturnedSlow(p, t) /\ ReturnedSlow(q, t)) =>
      /\ CopiesIn(TenantDbName(t), createIssued) = 1
      /\ frame[p].result = frame[q].result
      /\ t \in DOMAIN tenantOrmInstances
      /\ tenantOrmInstances[t] = frame[p].result

\* C2: for every tenant id t, at most one execution of the provisioning
\* section of getTenantORM (existence check, CREATE DATABASE, connect,
\* migrate or bootstrap) is in progress at any time.
C2_ProvisioningExclusive ==
  \A p, q \in Procs :
    (/\ p # q
     /\ frame[p].pc \in ProvisioningPcs
     /\ frame[q].pc \in ProvisioningPcs) => frame[p].tenantId # frame[q].tenantId

\* C3: for every tenant id t, at most one open handle created by the
\* TenantManager is bound to database tenant_t.
C3_OneLiveHandlePerTenant ==
  \A h1, h2 \in DOMAIN orms :
    (/\ orms[h1].dbName # BaseDbName
     /\ orms[h1].dbName = orms[h2].dbName
     /\ orms[h1].open
     /\ orms[h2].open) => h1 = h2

\* C4: getBaseORM opens at most one base-database connection and every
\* caller receives that same handle, overlapping callers included.
C4_SingleBaseHandle ==
  /\ \A h1, h2 \in DOMAIN orms :
       (orms[h1].dbName = BaseDbName /\ orms[h2].dbName = BaseDbName) => h1 = h2
  /\ \A p \in Procs :
       /\ frame[p].baseOrm # Null => frame[p].baseOrm = baseOrm
       /\ frame[p].pc = "baseReturned" => frame[p].result = baseOrm

\* C5: the handle cached under t is bound to database tenant_t, and a request
\* forwarded by the tenant middleware with tenant id t carries a handle bound
\* to tenant_t, never one bound to the database of another tenant.
C5_TenantIsolation ==
  /\ \A t \in DOMAIN tenantOrmInstances :
       orms[tenantOrmInstances[t]].dbName = <<"tenant_">> \o t
  /\ \A p \in Procs :
       req[p].nextCalled =>
         /\ req[p].tenantId = req[p].resolved
         /\ req[p].tenantORM \in DOMAIN orms
         /\ orms[req[p].tenantORM].dbName = <<"tenant_">> \o req[p].tenantId
         /\ \A t \in DOMAIN tenantOrmInstances :
              t # req[p].tenantId => orms[req[p].tenantORM].dbName # <<"tenant_">> \o t
         /\ \A q \in Procs :
              (req[q].nextCalled /\ req[q].tenantId # req[p].tenantId) =>
                orms[req[q].tenantORM].dbName # orms[req[p].tenantORM].dbName

\* Two requests of different tenants have both been forwarded with a handle.
C5_Witness ==
  \E p, q \in Procs :
    /\ req[p].nextCalled
    /\ req[q].nextCalled
    /\ req[p].tenantId # req[q].tenantId

\* Request p calls getTenantORM in this step.
CallsGetTenantORM(p) ==
  /\ frame[p].pc = "idle"
  /\ frame'[p].pc # "idle"
  /\ frame'[p].tenantId # <<>>

C7_MigrationFailureSwallowed ==
  [][ \A p \in Procs :
        (frame[p].pc \in {"migrate", "bootstrap"} /\ frame'[p].migFailed) =>
          /\ frame'[p].bootstrap \in {"readFailed", "ran"}
          /\ frame'[p].pc \in {"bootstrap", "returned"}
          /\ frame'[p].pc = "bootstrap" => frame'[p].todo # <<>>
          /\ frame'[p].pc = "returned" =>
               /\ frame[p].orm # Null
               /\ frame'[p].result = frame[p].orm
               /\ frame[p].tenantId \in DOMAIN tenantOrmInstances'
               /\ tenantOrmInstances'[frame[p].tenantId] = frame[p].orm
    ]_vars

\* A call whose migration failed and whose two bootstrap statements both
\* failed has returned its handle, which is cached.
C7_Witness ==
  \E p \in Procs :
    /\ frame[p].pc = "returned"
    /\ frame[p].migFailed
    /\ frame[p].bootstrap = "ran"
    /\ frame[p].stmtFailed = 2
    /\ tenantOrmInstances[frame[p].tenantId] = frame[p].result

\* C8: if opening the tenant handle (MikroORM.init for tenant_t) fails,
\* getTenantORM(t) fails and the cache is left unchanged with no entry for t,
\* so that the next getTenantORM(t) misses the cache and provisions again
\* from the existence check.
C8_ConnectFailureLeavesNoEntry ==
  [][ \A p \in Procs :
        (frame[p].pc = "tenantInit" /\ frame'[p].pc = "failed") =>
          /\ tenantOrmInstances' = tenantOrmInstances
          /\ frame[p].tenantId \notin DOMAIN tenantOrmInstances'
    ]_vars

\* C9: a request under /api with no X-Tenant-Id header and host name
\* localhost is answered 400 and getTenantORM is not called for it.
C9_LocalhostWithoutHeaderRejected ==
  \A p \in Procs :
    (/\ req[p].kind = "api"
     /\ req[p].header = Undefined
     /\ req[p].hostname = Str(Localhost)) =>
       /\ req[p].status = 400
       /\ frame[p].pc = "done"
       /\ req[p].resolved = <<>>

\* l is the first dot-delimited label of h: the prefix of h that has no dot
\* and is followed by a dot or by the end of h.
IsFirstLabel(l, h) ==
  /\ Len(l) <= Len(h)
  /\ \A i \in 1..Len(l) : l[i] = h[i] /\ l[i] # "."
  /\ Len(l) = Len(h) \/ h[Len(l) + 1] = "."

C11_MiddlewareOutcomes ==
  \A p \in Procs :
    req[p].kind = "api" =>
      /\ req[p].resolved = <<>> =>
            /\ req[p].status = 400
            /\ ~req[p].nextCalled
            /\ frame[p].pc = "done"
      /\ req[p].status = 500 =>
            /\ req[p].message = "Error initializing tenant context"
            /\ ~req[p].nextCalled
      /\ req[p].nextCalled =>
            /\ req[p].status = 0
            /\ req[p].tenantId = req[p].resolved
            /\ req[p].tenantId # <<>>
            /\ req[p].tenantORM \in 1..Len(orms)
      /\ frame[p].pc = "done" =>
            (req[p].status \in {400, 500} \/ req[p].nextCalled)

\* The same statement for the requests that carry a host name.
C11_OutcomesWithHostName ==
  \A p \in Procs :
    (req[p].kind = "api" /\ req[p].hostname.defined) =>
      /\ req[p].resolved = <<>> =>
            /\ req[p].status = 400
            /\ ~req[p].nextCalled
            /\ frame[p].pc = "done"
      /\ req[p].status = 500 =>
            /\ req[p].message = "Error initializing tenant context"
            /\ ~req[p].nextCalled
      /\ req[p].nextCalled =>
            /\ req[p].status = 0
            /\ req[p].tenantId = req[p].resolved
            /\ req[p].tenantId # <<>>
            /\ req[p].tenantORM \in 1..Len(orms)
      /\ frame[p].pc = "done" =>
            (req[p].status \in {400, 500} \/ req[p].nextCalled)

\* The handler of signal s is inside the sweep of closeConnections.
Sweeping(s) == handler[s].pc \in {"closeBase", "closeTenant"}

\* C12: after tenants have been resolved and the base handle has been opened,
\* a closeConnections call in which no close fails ends with every cached
\* tenant handle and the base handle closed: no handle held by the
\* TenantManager is open when the call returns.
C12_SweepClosesHeldHandles ==
  [][\A s \in Signals :
       (Sweeping(s) /\ handler[s].closedBase /\ handler'[s].pc = "closeOrm") =>
         /\ baseOrm' # Null
         /\ ~orms'[baseOrm'].open
         /\ \A t \in DOMAIN tenantOrmInstances' : ~orms'[tenantOrmInstances'[t]].open]_vars

\* C13: when closing one handle fails during shutdown, the sweep still
\* attempts to close every other handle (the base handle and every cached
\* tenant handle), and the signal handler still closes the startup ORM and
\* reaches process.exit.  A handler whose promise was rejected runs no
\* further, so all of this must already have happened by then.
C13_CloseFailureDoesNotStopShutdown ==
  \A s \in Signals :
    handler[s].pc = "rejected" =>
      /\ baseOrm # Null => handler[s].closedBase
      /\ DOMAIN tenantOrmInstances \subseteq handler[s].visited
      /\ server.orm = "closed"
      /\ server.pc = "exited"

\* C14: the process starts listening only after the connection to the base
\* database was established at startup; when it cannot be obtained the
\* server never listens and the process exits with a failure code.
C14_ListenOnlyAfterBaseConnection ==
  /\ [](server.pc = "listening" => server.orm = "open")
  /\ [](server.orm = "none" =>
          /\ server.pc \in {"ormInit", "exited"}
          /\ server.pc = "exited" => server.exitCode = 1
          /\ started = 0)
  /\ [][server.pc = "exited" => server'.pc = "exited"]_vars

\* The server listens with its startup connection open and serves a request.
C14_Witness ==
  /\ server.pc = "listening"
  /\ server.orm = "open"
  /\ \E p \in Procs : req[p].kind = "api"

\* The startup connection failed and the process ended with exit code 1.
C14_StartupFailed ==
  /\ server.pc = "exited"
  /\ server.orm = "none"
  /\ server.exitCode = 1

\* C20: when the process begins serving traffic the TenantManager's own base
\* handle has already been acquired: it is acquired exactly once, at process
\* start, and no getBaseORM call on the request path opens a connection.
C20_BaseHandleAcquiredAtStart ==
  server.pc = "listening" =>
    /\ baseOrm # Null
    /\ Cardinality({h \in 1..Len(orms) : orms[h].dbName = BaseDbName}) = 1
    /\ \A p \in Procs : frame[p].pc # "baseInit"

\* The awaited operation of request p completes and its getTenantORM call
\* goes on without failing.
Advance(p) ==
  /\ \/ BaseInitDone(p)
     \/ ExistsQueryDone(p)
     \/ CreateDbDone(p)
     \/ TenantInitDone(p)
     \/ MigrateDone(p)
     \/ BootstrapStmtDone(p)
  /\ frame'[p].pc # "failed"

\* C15: provisioning of different tenants is independent: while
\* getTenantORM(t1) is suspended at any step, a getTenantORM(t2) call for
\* another tenant can take its next step at every point from its start to
\* its return; no step of it waits for t1.
C15_TenantsIndependent ==
  \A p, q \in Procs :
    (p # q /\ InSlowPath(q, frame[q].tenantId)) =>
      /\ (frame[p].pc = "idle" /\ started < MaxRequests) =>
            \A r \in ApiRequests :
              ResolveTenantId(r[1], r[2]) # frame[q].tenantId => ENABLED ApiRequest(p, r[1], r[2])
      /\ (InSlowPath(p, frame[p].tenantId) /\ frame[p].tenantId # frame[q].tenantId) =>
            ENABLED Advance(p)

\* A call for one tenant went through provisioning and returned while a call
\* for another tenant is still suspended in its connect or migration step.
C15_Witness ==
  \E p, q \in Procs :
    /\ p # q
    /\ frame[q].pc \in {"tenantInit", "migrate"}
    /\ InSlowPath(q, frame[q].tenantId)
    /\ ReturnedSlow(p, frame[p].tenantId)
    /\ frame[p].tenantId # frame[q].tenantId

\* [a-z0-9] within the characters of the model.
LowerAlnum == {"g", "v", "c", "1"}

GreenValleyCoop ==
  <<"G", "r", "e", "e", "n", " ", "V", "a", "l", "l", "e", "y", " ", "C", "o", "-", "o", "p">>

\* C16: the tenant id derived from an organization name is the lower-cased
\* name with every non-alphanumeric character replaced by '-', so it has
\* only characters of [a-z0-9] and '-'; 'Green Valley Co-op' gives
\* 'green-valley-co-op'.
C16_DerivedIdAlphabet ==
  /\ DeriveTenantId(GreenValleyCoop) =
       <<"g", "r", "e", "e", "n", "-", "v", "a", "l", "l", "e", "y", "-", "c", "o", "-", "o", "p">>
  /\ \A p \in Procs :
       (req[p].kind = "create" /\ frame[p].pc \notin {"persist", "done"}) =>
         \A i \in 1..Len(req[p].resolved) : req[p].resolved[i] \in LowerAlnum \cup {"-"}

\* C17: when the existence check or CREATE DATABASE fails during
\* getTenantORM(t), no error reaches the caller and provisioning goes on
\* with the connect step for tenant_t; within provisioning only a failing
\* connect step makes getTenantORM(t) fail.
C17_CheckCreateFailureSwallowed ==
  [][\A p \in Procs :
       /\ (frame[p].pc \in {"existsQuery", "createDb"} /\ frame'[p] # frame[p]) =>
             /\ frame'[p].pc \in {"createDb", "tenantInit"}
             /\ frame'[p].pc = "createDb" => frame[p].pc = "existsQuery"
             /\ frame'[p].tenantId = frame[p].tenantId
             /\ req'[p] = req[p]
       /\ (frame[p].dbStep \in {"checkFailed", "createFailed"} /\ frame'[p] # frame[p]) =>
             /\ frame[p].pc = "tenantInit"
             /\ frame'[p].pc \in {"migrate", "failed"}
             /\ frame'[p].pc = "migrate" =>
                   orms'[frame'[p].orm].dbName = TenantDbName(frame[p].tenantId)
       /\ (frame[p].pc \in ProvisioningPcs /\ frame'[p].pc = "failed") =>
             frame[p].pc = "tenantInit"]_vars

\* A call whose existence check failed, and a call whose CREATE DATABASE
\* failed, are both in the connect step.
C17_Witness ==
  \E p, q \in Procs :
    /\ frame[p].pc = "tenantInit" /\ frame[p].dbStep = "checkFailed"
    /\ frame[q].pc = "tenantInit" /\ frame[q].dbStep = "createFailed"

\* C18: on every first resolution of t the existence of tenant_t is checked
\* against the catalog (the connect step is only reached through the check),
\* and CREATE DATABASE tenant_t is issued only when that check completed
\* without error and found no such database.
C18_CreateOnlyAfterCheckSaysAbsent ==
  [][\A p \in Procs :
       /\ (frame'[p].pc = "tenantInit" /\ frame[p].pc # "tenantInit") =>
             frame[p].pc \in {"existsQuery", "createDb"}
       /\ (frame[p].pc \in {"idle", "persist"} /\ frame'[p].slow) =>
             frame'[p].pc \in {"baseInit", "existsQuery"}
       /\ (frame[p].pc = "baseInit" /\ frame[p].slow /\ frame'[p] # frame[p]) =>
             frame'[p].pc \in {"existsQuery", "failed"}
       /\ (frame'[p].pc = "createDb" /\ frame[p].pc # "createDb") =>
             /\ frame[p].pc = "existsQuery"
             /\ frame'[p].dbStep = "absent"
             /\ TenantDbName(frame[p].tenantId) \notin pgDatabases
             /\ createIssued' = createIssued (+) SetToBag({TenantDbName(frame[p].tenantId)})
       /\ (\A q \in Procs : ~(frame'[q].pc = "createDb" /\ frame[q].pc # "createDb")) =>
             createIssued' = createIssued]_vars

\* CREATE DATABASE was issued for a tenant whose database the check did not
\* find, while the database of another tenant, left by an earlier run, was
\* found by the check and no CREATE was issued for it.
C18_Witness ==
  \E p, q \in Procs :
    /\ frame[p].pc = "createDb" /\ frame[p].dbStep = "absent"
    /\ CopiesIn(TenantDbName(frame[p].tenantId), createIssued) = 1
    /\ frame[q].pc = "tenantInit" /\ frame[q].dbStep = "exists"
    /\ CopiesIn(TenantDbName(frame[q].tenantId), createIssued) = 0

\* The statement loop that record r (a getTenantORM frame, or bootstrap() of
\* index.ts) is in has so far issued, in script order and once each, the
\* first statements of its script, and the rest is still to come.
LoopInOrder(r) ==
  /\ r.todo # <<>>
  /\ r.executed \o r.todo = Statements(r.schema)

\* Record r takes a step of its statement loop to r2: the statement at the
\* head is done and the loop goes on with the next one, or it was the last.
LoopStep(r, r2, inLoop, inLoop2) ==
  (inLoop /\ r2 # r) =>
    IF Len(r.todo) > 1
      THEN /\ inLoop2
           /\ r2.executed = Append(r.executed, Head(r.todo))
           /\ r2.todo = Tail(r.todo)
           /\ r2.schema = r.schema
      ELSE ~inLoop2

\* C19: bootstrap execution attempts every non-empty statement of the script
\* exactly once, in script order; a statement that fails does not stop the
\* execution, and every later statement is still executed.
C19_EveryStatementOnceInOrder ==
  /\ Statements(<<"x", ";", " ", "y", ";", " ">>) = << <<"x">>, <<"y">> >>
  /\ Statements(<<" ", ";", "x">>) = << <<"x">> >>
  /\ Statements(<<>>) = <<>>
  /\ [](\A p \in Procs : frame[p].pc = "bootstrap" => LoopInOrder(frame[p]))
  /\ [](server.pc = "schema" => LoopInOrder(server))
  /\ [][\A p \in Procs :
          /\ LoopStep(frame[p], frame'[p], frame[p].pc = "bootstrap", frame'[p].pc = "bootstrap")
          /\ ((frame[p].pc = "bootstrap" /\ frame'[p].pc # "bootstrap") =>
                frame'[p].pc = "returned")]_vars
  /\ [][/\ LoopStep(server, server', server.pc = "schema", server'.pc = "schema")
        /\ ((server.pc = "schema" /\ server'.pc # "schema") =>
              server'.pc = "listening")]_vars

\* The first statement of a two-statement script failed and the second one
\* has been issued.
C19_Witness ==
  \E p \in Procs :
    /\ frame[p].pc = "bootstrap"
    /\ frame[p].stmtFailed = 1
    /\ frame[p].executed = << <<"x">> >>
    /\ frame[p].todo = << <<"y">> >>

\* C21: once a handle has been cached under t, the cache entry of t refers
\* to that same handle for the rest of the process lifetime (no later
\* getTenantORM call replaces or removes it), and only the shutdown sweep
\* closes a cached handle.
C21_CacheEntryStable ==
  [][/\ \A t \in DOMAIN tenantOrmInstances :
          /\ t \in DOMAIN tenantOrmInstances'
          /\ tenantOrmInstances'[t] = tenantOrmInstances[t]
     /\ \A t \in DOMAIN tenantOrmInstances :
          ((orms[tenantOrmInstances[t]].open /\ ~orms'[tenantOrmInstances[t]].open) =>
             \E s \in Signals : handler[s].pc = "closeTenant"
                                /\ handler[s].target = tenantOrmInstances[t])]_vars

\* The handler of signal s has returned from closeConnections and awaits
\* orm.close() of the startup ORM.
SweepDone(s) == handler[s].pc = "closeOrm"

\* C22: on a termination signal the handler first runs closeConnections to
\* completion, then closes the startup ORM, and only then exits the process;
\* when the process exits, every cached handle has been closed.
C22_ExitAfterAllCloses ==
  /\ [][(server.pc # "exited" /\ server'.pc = "exited" /\ server'.exitCode = 0) =>
          (/\ \E s \in Signals : SweepDone(s)
           /\ server'.orm = "closed")]_vars
  /\ []((server.pc = "exited" /\ server.exitCode = 0) =>
          \A t \in DOMAIN tenantOrmInstances : ~orms[tenantOrmInstances[t]].open)

\* The order of the handler's steps alone: the sweep is entered from the
\* signal, the close of the startup ORM from the end of the sweep, and
\* process.exit(0) from the completed close of the startup ORM.
C22_HandlerOrder ==
  /\ [][(server.pc # "exited" /\ server'.pc = "exited" /\ server'.exitCode = 0) =>
          (/\ \E s \in Signals : SweepDone(s)
           /\ server'.orm = "closed")]_vars
  /\ [][\A s \in Signals :
          /\ ((~SweepDone(s) /\ handler'[s].pc = "closeOrm") =>
                (/\ handler[s].pc \in {"idle", "closeBase", "closeTenant"}
                 /\ DOMAIN tenantOrmInstances \subseteq handler'[s].visited
                 /\ (handler[s].pc = "idle" => baseOrm = Null)))
          /\ ((handler[s].pc = "idle" /\ handler'[s].pc # "idle") =>
                handler'[s].pc \in {"closeBase", "closeTenant", "closeOrm"})]_vars


\* C24: a request under /organizations or /farms never passes through the
\* tenant resolver: whatever its header and host name it is never answered
\* with the 400 missing-tenant response, no tenant handle is attached and
\* next() of the tenant middleware is never called for it; while its
\* directory read or write is pending, the handle it uses is the one
\* getBaseORM returned, the handle of the base database.
C24_OrgRoutesBypassResolver ==
  \A p \in Procs :
    (req[p].kind \in {"org", "create"}) =>
      /\ req[p].message # "Tenant identification required"
      /\ req[p].tenantORM = Null
      /\ ~req[p].nextCalled
      /\ (req[p].kind = "org" => req[p].resolved = <<>>)
      /\ (frame[p].pc \in {"baseReturned", "findOne"} =>
            /\ frame[p].result # Null
            /\ frame[p].result = baseOrm
            /\ orms[frame[p].result].dbName = BaseDbName)

\* An organization listing without header, on a host name without tenant
\* label, was answered 200.
C24_Witness ==
  \E p \in Procs :
    /\ req[p].kind = "org"
    /\ ~req[p].header.defined
    /\ req[p].hostname = Str(Localhost)
    /\ req[p].status = 200


\* C29: POST /organizations is all-or-nothing: whenever it has answered with
\* an error status (400, 409 or 500) the base database holds no new
\* organization record from that request.
C29_CreateAllOrNothing ==
  \A p \in Procs :
    (req[p].kind = "create" /\ req[p].status \in {400, 409, 500}) => ~req[p].persisted


\* C25: when the shutdown sweep has completed (closeConnections returns, no
\* close having failed), every handle the TenantManager ever opened, the
\* base handle and every tenant handle created by any getTenantORM call, is
\* closed.
C25_SweepClosesEveryOpenedHandle ==
  [][\A s \in Signals :
       (handler[s].pc # "closeOrm" /\ handler'[s].pc = "closeOrm") =>
         (\A h \in 1..Len(orms') : ~orms'[h].open)]_vars


\* Handle h is being provisioned: the getTenantORM call that opened it is
\* awaiting migrator.up() or a statement of the bootstrap fallback.
Provisioning(h) ==
  \E q \in Procs : frame[q].pc \in {"migrate", "bootstrap"} /\ frame[q].orm = h

\* C26: a handle is in the cache only after its schema provisioning attempt
\* (migrator.up, and the bootstrap fallback if it ran) has finished: no
\* cached handle, no handle returned by getTenantORM on the fast or the slow
\* path, and no handle attached to a request has its migration or bootstrap
\* still in progress.
C26_CachedAfterProvisioning ==
  /\ \A t \in DOMAIN tenantOrmInstances : ~Provisioning(tenantOrmInstances[t])
  /\ \A p \in Procs :
       /\ (frame[p].pc = "returned" => ~Provisioning(frame[p].result))
       /\ (req[p].tenantORM # Null => ~Provisioning(req[p].tenantORM))

\* A caller received a cached handle on the fast path while another call was
\* still provisioning its own handle for the same tenant.
C26_Witness ==
  \E p \in Procs, q \in Procs :
    /\ frame[p].pc = "returned"
    /\ ~frame[p].slow
    /\ frame[p].tenantId \in DOMAIN tenantOrmInstances
    /\ frame[p].result = tenantOrmInstances[frame[p].tenantId]
    /\ frame[q].pc \in {"migrate", "bootstrap"}
    /\ frame[q].tenantId = frame[p].tenantId


\* The handler of signal s has invoked close() on TenantManager handle h: the
\* call is pending, or it failed and rejected the handler.
CloseInvoked(s, h) ==
  /\ handler[s].pc \in {"closeBase", "closeTenant", "rejected"}
  /\ handler[s].target = h

\* The handler of signal s has invoked close() on the startup ORM.
CloseOrmInvoked(s) ==
  \/ handler[s].pc = "closeOrm"
  \/ handler[s].pc = "rejected" /\ handler[s].target = Null

\* C27: close() is invoked at most once on each handle, for any sequence of
\* SIGTERM and SIGINT deliveries: a step in which a handler invokes close()
\* on a base or tenant handle finds that handle open and not the target of
\* a close() of the other handler, and close() of the startup ORM is
\* invoked only while it is open and no other handler has invoked it.
C27_CloseAtMostOnce ==
  [][\A s \in Signals :
       /\ ((/\ handler'[s].pc \in {"closeBase", "closeTenant"}
            /\ <<handler'[s].pc, handler'[s].target>> # <<handler[s].pc, handler[s].target>>) =>
             /\ orms[handler'[s].target].open
             /\ \A s2 \in Signals \ {s} : ~CloseInvoked(s2, handler'[s].target))
       /\ ((handler'[s].pc = "closeOrm" /\ handler[s].pc # "closeOrm") =>
             /\ server.orm = "open"
             /\ \A s2 \in Signals \ {s} : ~CloseOrmInvoked(s2))]_vars


\* The outcomes the tenant middleware has produced for the request of p.
Outcomes(p) ==
  {o \in {"400", "500", "next"} :
     \/ o = "400" /\ req[p].status = 400
     \/ o = "500" /\ req[p].status = 500
     \/ o = "next" /\ req[p].nextCalled}

\* C28: each request entering the tenant middleware produces exactly one
\* outcome, a 400 response, a 500 response or a call of next(): never more
\* than one, and exactly one once the middleware has ended, by returning or
\* by throwing.
C28_ExactlyOneOutcome ==
  \A p \in Procs :
    req[p].kind = "api" =>
      /\ Cardinality(Outcomes(p)) <= 1
      /\ (frame[p].pc \in {"done", "threw"} => Cardinality(Outcomes(p)) = 1)


\* C30: closeConnections leaves the key set of the cache and the base
\* handle reference unchanged: no step of a signal handler changes
\* tenantOrmInstances or baseOrm.  Hence a later getTenantORM(t) for a
\* cached t returns the cached handle at once, closed or not, and a later
\* getBaseORM with a base handle set returns that handle; neither opens a
\* connection or starts provisioning.
C30_CloseLeavesReferences ==
  /\ [][(handler' # handler) =>
          /\ tenantOrmInstances' = tenantOrmInstances
          /\ baseOrm' = baseOrm]_vars
  /\ [][\A p \in Procs :
          (/\ frame[p].pc = "idle"
           /\ frame'[p].pc \notin {"idle", "threw", "done"}
           /\ req'[p].kind = "api") =>
            /\ orms' = orms
            /\ (req'[p].resolved \in DOMAIN tenantOrmInstances =>
                  /\ frame'[p].pc = "returned"
                  /\ frame'[p].result = tenantOrmInstances[req'[p].resolved])
            /\ ((req'[p].resolved \notin DOMAIN tenantOrmInstances /\ baseOrm # Null) =>
                  /\ frame'[p].pc = "existsQuery"
                  /\ frame'[p].baseOrm = baseOrm)]_vars

\* After a completed sweep a request for a cached tenant was handed the
\* closed handle.
C30_Witness ==
  \E p \in Procs, s \in Signals :
    /\ handler[s].pc = "closeOrm"
    /\ frame[p].pc = "returned"
    /\ frame[p].tenantId \in handler[s].visited
    /\ frame[p].result = tenantOrmInstances[frame[p].tenantId]
    /\ ~orms[frame[p].result].open

\* After a completed sweep a request for another tenant was handed the
\* closed base handle for its catalog query.
C30_ClosedBaseReturned ==
  \E p \in Procs, s \in Signals :
    /\ handler[s].pc = "closeOrm"
    /\ handler[s].closedBase
    /\ frame[p].pc = "existsQuery"
    /\ frame[p].baseOrm = baseOrm
    /\ ~orms[baseOrm].open

====
